---- MODULE Spec2Model ----
(***************************************************************************)
(* Model of src/cpp/chainer_tagger.h: the abstract Tagger interface and    *)
(* its ChainerTagger realisation.  One backend object is followed from     *)
(* its construction against a model directory through calls of predict,    *)
(* TargetSize and TagAt, together with the caller-owned path string that   *)
(* the constructor receives by reference.                                  *)
(*                                                                         *)
(* utils::load_category_list (utils.h) and the body of                     *)
(* ChainerTagger::predict are declared, not defined, in the header; they   *)
(* are modelled after the written specification of the tagging layer.      *)
(***************************************************************************)
EXTENDS Integers, Sequences, FiniteSets, TLC

\* ------------------------------------------------------------------ bounds
MaxLines == 3
MaxTokens == 2

\* ------------------------------------------------------------ value spaces
\* Interned categories that a line of target.txt can denote.
Category == {"NP", "S/NP", "S\\NP"}

\* A line of target.txt: a category, a blank line, or text that is not a
\* category expression.
Malformed == "(("
Line == Category \cup {"", Malformed}

\* The resource <model>/target.txt: absent, or a sequence of lines.
SeqsUpTo(S, n) == UNION {[1..k -> S] : k \in 0..n}
NoFile == [exists |-> FALSE, lines |-> <<>>]
Resource ==
    {NoFile} \cup {[exists |-> TRUE, lines |-> l] : l \in SeqsUpTo(Line, MaxLines)}

Token == {"dogs", "run"}
TokenSeq == SeqsUpTo(Token, MaxTokens)

\* int idx of TagAt: every in-range index plus the neighbours on both sides.
Index == (0 - 1)..(MaxLines + 1)

\* What model_ can be bound to.
NoRef == "none"
CallerPath == "caller_path"

\* What a read through targets_[idx] with idx out of range can yield: a
\* pointer-sized word that is no element of the inventory.
Garbage == "garbage"
Null == "nullptr"

VARIABLES
    resource,   \* contents of <model>/target.txt on disk
    pathKind,   \* the argument bound to `model`: a named string or a temporary
    pathStr,    \* the caller's string object: "alive", "changed", "destroyed"
    state,      \* "unconstructed", "constructed", "failed", "crashed"
    ctorError,  \* the exception that left the constructor, "" when none
    model_,     \* ChainerTagger::model_ (const std::string&)
    targets_,   \* ChainerTagger::targets_
    last,       \* the most recent call on the backend and what it ended in
    history     \* the kinds of call made on this instance so far

vars == <<resource, pathKind, pathStr, state, ctorError, model_, targets_,
          last, history>>

NoCall == [op |-> "none"]

\* --------------------------------------------------- category-list loader
Range(s) == {s[i] : i \in DOMAIN s}

RECURSIVE NonEmptyLines(_)
NonEmptyLines(lines) ==
    IF lines = <<>> THEN <<>>
    ELSE IF Head(lines) = "" THEN NonEmptyLines(Tail(lines))
         ELSE <<Head(lines)>> \o NonEmptyLines(Tail(lines))

HasDuplicate(lines) ==
    \E i, j \in DOMAIN lines : i # j /\ lines[i] # "" /\ lines[i] = lines[j]

HasMalformed(lines) == \E i \in DOMAIN lines : lines[i] = Malformed

\* A blank line followed by a category: the category's line number and its
\* index would differ.
HasInteriorBlank(lines) ==
    \E i, j \in DOMAIN lines : i < j /\ lines[i] = "" /\ lines[j] # ""

\* utils::load_category_list(path): the categories of the non-empty lines in
\* file order, or LoadError when the resource is missing, empty, or holds a
\* malformed or duplicate entry.
load_category_list(res) ==
    IF ~res.exists THEN [ok |-> FALSE, error |-> "LoadError"]
    ELSE IF NonEmptyLines(res.lines) = <<>>
         THEN [ok |-> FALSE, error |-> "LoadError"]
    ELSE IF \/ HasMalformed(res.lines)
            \/ HasInteriorBlank(res.lines)
            \/ HasDuplicate(res.lines)
         THEN [ok |-> FALSE, error |-> "LoadError"]
    ELSE [ok |-> TRUE, cats |-> NonEmptyLines(res.lines)]

\* ------------------------------------------------------ const member reads
TargetSize_short == Len(targets_) - 1

\* int TargetSize() const { return this->targets_.size(); }
TargetSize == Len(targets_)

TagAt_first(idx) == targets_[1]

TagAt_next(idx) == targets_[((idx + 1) % Len(targets_)) + 1]

\* const cat::Category* TagAt(int idx) const { return targets_[idx]; }
\* for idx inside the vector; C++ indices are 0-based, sequences 1-based.
TagAt(idx) == targets_[idx + 1]

InRange(idx) == 0 <= idx /\ idx < Len(targets_)

\* targets_[idx] with idx outside the vector is an unchecked read past the
\* storage: the call returns whatever word lies there, or the process dies.
TagAtOutOfRange ==
    {[kind |-> "returned", cat |-> c, readOutside |-> TRUE] : c \in {Garbage, Null}}
    \cup {[kind |-> "crash", cat |-> Null, readOutside |-> TRUE]}

\* ------------------------------------------------------------- prediction
\* The score of the token at position i against one category; the numeric
\* value is the inference mechanism's business.
Score(tokens, i, c) == [pos |-> i, token |-> tokens[i + 1], cat |-> c]

predict_result_silent(tokens, cats) ==
    [kind |-> "buffer",
     buf |-> [k \in 1..(Len(tokens) * Len(cats)) |->
                Score(tokens, (k - 1) \div Len(cats),
                      cats[((k - 1) % Len(cats)) + 1])]]

\* The body of ChainerTagger::predict: PredictionError on an empty token
\* sequence, else a fresh row-major buffer of Len(tokens) * Len(cats) scores.
predict_result(tokens, cats) ==
    IF tokens = <<>> THEN [kind |-> "PredictionError", buf |-> <<>>]
    ELSE [kind |-> "buffer",
          buf |-> [k \in 1..(Len(tokens) * Len(cats)) |->
                     Score(tokens, (k - 1) \div Len(cats),
                           cats[((k - 1) % Len(cats)) + 1])]]

\* ------------------------------------------------------------------- Init
Init ==
    /\ resource \in Resource
    /\ pathKind \in {"named", "temporary"}
    /\ pathStr = "alive"
    /\ state = "unconstructed"
    /\ ctorError = ""
    /\ model_ = NoRef
    /\ targets_ = <<>>
    /\ last = NoCall
    /\ history = {}

\* ---------------------------------------------------------------- actions
\* The end of the full-expression that holds the constructor call: a
\* temporary std::string bound to `model` is destroyed there.
AfterCtorExpr == IF pathKind = "temporary" THEN "destroyed" ELSE pathStr

ChainerTagger_defaultEmpty ==
    /\ state = "unconstructed"
    /\ LET r == load_category_list(resource) IN
         /\ state' = "constructed"
         /\ ctorError' = ""
         /\ model_' = CallerPath
         /\ targets_' = IF r.ok THEN r.cats ELSE <<>>
    /\ pathStr' = AfterCtorExpr
    /\ UNCHANGED <<resource, pathKind, last, history>>

RECURSIVE Dedup(_)
Dedup(lines) ==
    IF lines = <<>> THEN <<>>
    ELSE LET rest == Dedup(Tail(lines)) IN
         IF Head(lines) \in Range(rest) \/ Head(lines) \notin Category
         THEN rest ELSE <<Head(lines)>> \o rest

ChainerTagger_dedup ==
    /\ state = "unconstructed"
    /\ LET r == load_category_list(resource) IN
         IF r.ok \/ Dedup(resource.lines) # <<>>
         THEN /\ state' = "constructed"
              /\ ctorError' = ""
              /\ model_' = CallerPath
              /\ targets_' = IF r.ok THEN r.cats ELSE Dedup(resource.lines)
         ELSE /\ state' = "failed"
              /\ ctorError' = r.error
              /\ UNCHANGED <<model_, targets_>>
    /\ pathStr' = AfterCtorExpr
    /\ UNCHANGED <<resource, pathKind, last, history>>

\* ChainerTagger(const std::string& model)
\*   : model_(model), targets_(utils::load_category_list(model + "/target.txt")) {}
\* model_ is bound to the caller's string; an exception of the loader leaves
\* the constructor and no object exists.
ChainerTagger ==
    /\ state = "unconstructed"
    /\ LET r == load_category_list(resource) IN
         IF r.ok
         THEN /\ state' = "constructed"
              /\ ctorError' = ""
              /\ model_' = CallerPath
              /\ targets_' = r.cats
         ELSE /\ state' = "failed"
              /\ ctorError' = r.error
              /\ UNCHANGED <<model_, targets_>>
    /\ pathStr' = AfterCtorExpr
    /\ UNCHANGED <<resource, pathKind, last, history>>

\* A call of TargetSize() on the constructed backend.
CallTargetSize ==
    /\ state = "constructed"
    /\ last' = [op |-> "TargetSize", value |-> TargetSize]
    /\ history' = history \cup {"TargetSize"}
    /\ UNCHANGED <<resource, pathKind, pathStr, state, ctorError, model_,
                   targets_>>

\* A call of TagAt(idx) on the constructed backend.
CallTagAt(idx) ==
    /\ state = "constructed"
    /\ IF InRange(idx)
       THEN /\ last' = [op |-> "TagAt", idx |-> idx,
                        out |-> [kind |-> "returned", cat |-> TagAt(idx),
                                 readOutside |-> FALSE]]
            /\ UNCHANGED state
       ELSE \E o \in TagAtOutOfRange :
              /\ last' = [op |-> "TagAt", idx |-> idx, out |-> o]
              /\ state' = IF o.kind = "crash" THEN "crashed" ELSE state
    /\ history' = history \cup {"TagAt"}
    /\ UNCHANGED <<resource, pathKind, pathStr, ctorError, model_, targets_>>

predict_dropLast(tokens) ==
    /\ state = "constructed"
    /\ LET r == predict_result(tokens, targets_) IN
         /\ last' = [op |-> "predict", tokens |-> tokens, out |-> r]
         /\ history' = history \cup
                {IF r.kind = "buffer" THEN "predict_ok" ELSE "predict_err"}
    /\ targets_' = SubSeq(targets_, 1, Len(targets_) - 1)
    /\ UNCHANGED <<resource, pathKind, pathStr, state, ctorError, model_>>

predict_rotate(tokens) ==
    /\ state = "constructed"
    /\ LET r == predict_result(tokens, targets_) IN
         /\ last' = [op |-> "predict", tokens |-> tokens, out |-> r]
         /\ history' = history \cup
                {IF r.kind = "buffer" THEN "predict_ok" ELSE "predict_err"}
    /\ targets_' = Tail(targets_) \o <<Head(targets_)>>
    /\ UNCHANGED <<resource, pathKind, pathStr, state, ctorError, model_>>

\* std::unique_ptr<float[]> predict(const std::string& tokens) const;
\* a const member: the call reads the object and writes none of its fields.
predict(tokens) ==
    /\ state = "constructed"
    /\ LET r == predict_result(tokens, targets_) IN
         /\ last' = [op |-> "predict", tokens |-> tokens, out |-> r]
         /\ history' = history \cup
                {IF r.kind = "buffer" THEN "predict_ok" ELSE "predict_err"}
    /\ UNCHANGED <<resource, pathKind, pathStr, state, ctorError, model_,
                   targets_>>

\* The caller's named path string goes out of scope after the constructor
\* call.
CallerDestroysPath ==
    /\ state \in {"constructed", "failed"}
    /\ pathKind = "named"
    /\ pathStr \in {"alive", "changed"}
    /\ pathStr' = "destroyed"
    /\ UNCHANGED <<resource, pathKind, state, ctorError, model_, targets_,
                   last, history>>

\* The caller assigns another path to its named string after the
\* constructor call.
CallerChangesPath ==
    /\ state \in {"constructed", "failed"}
    /\ pathKind = "named"
    /\ pathStr = "alive"
    /\ pathStr' = "changed"
    /\ UNCHANGED <<resource, pathKind, state, ctorError, model_, targets_,
                   last, history>>

CallTagAtAny == \E idx \in Index : CallTagAt(idx)

predictAny == \E tokens \in TokenSeq : predict(tokens)

Next ==
    \/ ChainerTagger
    \/ CallTargetSize
    \/ CallTagAtAny
    \/ predictAny
    \/ CallerDestroysPath
    \/ CallerChangesPath

Spec == Init /\ [][Next]_vars

\* ------------------------------------------------------------- properties
NonEmptyCount(lines) == Cardinality({i \in DOMAIN lines : lines[i] # ""})

OutsideInventory(idx) == idx < 0 \/ idx >= TargetSize

C2_OutOfRangeRaised ==
    (last.op = "TagAt" /\ OutsideInventory(last.idx)) =>
        /\ last.out.kind = "OutOfRange"
        /\ ~last.out.readOutside

\* C3: predict on a non-empty sequence of n tokens returns a buffer of
\* exactly n * TargetSize() scores, and the score at i * TargetSize() + j is
\* the score of token i against TagAt(j).
C3_BufferShape ==
    (last.op = "predict" /\ last.tokens # <<>>) =>
        /\ last.out.kind = "buffer"
        /\ Len(last.out.buf) = Len(last.tokens) * TargetSize
        /\ \A i \in 0..(Len(last.tokens) - 1) : \A j \in 0..(TargetSize - 1) :
               last.out.buf[i * TargetSize + j + 1]
                   = Score(last.tokens, i, TagAt(j))

C3_Witness ==
    /\ last.op = "predict"
    /\ Len(last.tokens) = 2
    /\ last.tokens[1] # last.tokens[2]
    /\ TargetSize = 3
    /\ Len(last.out.buf) = 6

\* C4: no call on a constructed backend changes what TargetSize() returns,
\* and a TargetSize() call returns the size the inventory had before it.
C4_TargetSizeConstant ==
    [][state = "constructed" =>
          /\ TargetSize' = TargetSize
          /\ last'.op = "TargetSize" => last'.value = TargetSize]_vars

C4_Witness ==
    /\ state = "constructed"
    /\ history = {"predict_ok", "predict_err", "TagAt", "TargetSize"}
    /\ last.op = "TargetSize"
    /\ last.value = 2

\* C5: a predict call, successful or failed, leaves every in-range index of
\* the inventory denoting the same category.
C5_PredictKeepsInventory ==
    [][(state = "constructed" /\ last'.op = "predict") =>
          \A i \in 0..(TargetSize - 1) :
              /\ i < TargetSize'
              /\ TagAt(i)' = TagAt(i)]_vars

C5_Witness ==
    /\ state = "constructed"
    /\ {"predict_ok", "predict_err"} \subseteq history
    /\ TargetSize >= 2
    /\ last.op = "TagAt"
    /\ last.idx = 1
    /\ last.out.cat = resource.lines[2]

\* C6: with target.txt absent the constructor ends in LoadError: no backend
\* exists, none with an empty inventory, and no call was ever made on one.
C6_MissingResourceFails ==
    (~resource.exists /\ state # "unconstructed") =>
        /\ state = "failed"
        /\ ctorError = "LoadError"
        /\ targets_ = <<>>
        /\ last = NoCall

C6_Witness ==
    /\ ~resource.exists
    /\ state = "failed"
    /\ ctorError = "LoadError"

\* C7: once the constructor has returned, no field of the backend refers to
\* the caller's path string.
C7_PathNotRetained ==
    state = "constructed" => model_ # CallerPath

\* C8: a target.txt with a duplicate category makes the constructor end in
\* LoadError; no inventory comes out of it, truncated or de-duplicated.
C8_DuplicateFails ==
    (resource.exists /\ HasDuplicate(resource.lines)
        /\ state # "unconstructed") =>
        /\ state = "failed"
        /\ ctorError = "LoadError"
        /\ targets_ = <<>>

C8_Witness ==
    /\ resource.exists
    /\ HasDuplicate(resource.lines)
    /\ ~HasMalformed(resource.lines)
    /\ ~HasInteriorBlank(resource.lines)
    /\ state = "failed"

\* C9: on a constructed backend TagAt(i) and TagAt(j) differ for all distinct
\* i and j below TargetSize().
C9_DistinctCategories ==
    state = "constructed" =>
        \A i, j \in 0..(TargetSize - 1) : i # j => TagAt(i) # TagAt(j)

C9_Witness ==
    /\ state = "constructed"
    /\ TargetSize = 3
    /\ last.op = "TagAt"
    /\ last.idx = 2

\* C10: predict on an empty token sequence ends in PredictionError with no
\* buffer, and a predict on a non-empty sequence after such a failure
\* returns a buffer of n * TargetSize() scores.
C10_FailedPredictRecoverable ==
    /\ (last.op = "predict" /\ last.tokens = <<>>) =>
           /\ last.out.kind = "PredictionError"
           /\ last.out.buf = <<>>
           /\ state = "constructed"
    /\ (last.op = "predict" /\ last.tokens # <<>>
           /\ "predict_err" \in history) =>
           /\ last.out.kind = "buffer"
           /\ Len(last.out.buf) = Len(last.tokens) * TargetSize
           /\ Len(last.out.buf) > 0

C10_Witness ==
    /\ "predict_err" \in history
    /\ last.op = "predict"
    /\ Len(last.tokens) = 2
    /\ last.out.kind = "buffer"
    /\ Len(last.out.buf) = 2 * TargetSize

====
